---- MODULE Spec2Model ----
(***************************************************************************)
(* Book Notes: the Express applications of the repository over one          *)
(* Postgres database.                                                       *)
(*                                                                          *)
(*   src/unnamed/part_001  the application with sessions (passport-local)   *)
(*   src/index.js          the application without sessions                 *)
(*                                                                          *)
(* Both read the same DB_* environment variables, so they serve the same    *)
(* users and books tables.  A handler is one action; POST /register, which  *)
(* queries twice, is two actions so that two registrations can overlap.     *)
(*                                                                          *)
(* SQL values: a nullable value is a set, {} for NULL and {v} for v.        *)
(* Strings are sequences of character codes, "" is << >>.                   *)
(***************************************************************************)
EXTENDS Integers, Sequences, FiniteSets, TLC

VARIABLES users, books, bookSeq, session, inflight, resp, cover

vars == <<users, books, bookSeq, session, inflight, resp, cover>>
dbVars == <<users, books, bookSeq>>

\* ------------------------------------------------------------------ bounds
\* Last value the books id sequence may reach.
MaxBooks == 2

\* ------------------------------------------------------------------ inputs
Browser == {"b1", "b2"}
Emails == {"ann@x", "bob@x"}
RegisterPasswords == {"pw"}
LoginPasswords == {"pw", "bad"}

Null == {}
Some(v) == {v}
Val(o) == CHOOSE v \in o : TRUE

\* "a", "B", "x", "3", "5", "1", "2" as character codes
StrEmpty == << >>
StrA == <<97>>
StrB == <<66>>
StrX == <<120>>

\* A submitted form: every field is absent ({}) or a string ({s}).
Form(t, a, i, r, n, f) ==
    [title |-> t, author |-> a, isbn |-> i, rating |-> r, notes |-> n, finished_on |-> f]

Forms ==
    { Form(Null, Some(StrEmpty), Some(StrEmpty), Some(StrEmpty), Some(StrEmpty), Some(StrEmpty)),
      Form(Some(StrEmpty), Some(StrEmpty), Some(StrEmpty), Some(StrEmpty), Some(StrEmpty), Some(StrEmpty)),
      Form(Some(StrA), Some(StrX), Null, Some(<<53>>), Some(StrEmpty), Some(<<49>>)),
      Form(Some(StrB), Some(StrEmpty), Some(StrX), Some(StrEmpty), Some(StrX), Some(<<50>>)) }

\* req.query.sort: absent, or one of these strings
SortParams == {Null, Some("recent"), Some("rating"), Some("title"), Some("pages")}

BookIds == 1 .. (MaxBooks + 1)

\* What the database connection does with the queries of one request.
DbOutcomes == {"ok", "restore_failed", "query_failed"}

\* ------------------------------------------------------------- conversions
\* JavaScript `x || null` on a form field: undefined and "" become null.
OrNull(x) == IF x = Null \/ x = Some(StrEmpty) THEN Null ELSE x

RECURSIVE ParseInt(_)
\* Postgres reading a decimal string parameter for an INT / DATE column.
ParseInt(s) ==
    IF Len(s) = 0 THEN 0
    ELSE 10 * ParseInt(SubSeq(s, 1, Len(s) - 1)) + (s[Len(s)] - 48)

ToInt(o) == IF o = Null THEN Null ELSE Some(ParseInt(Val(o)))

\* bcrypt.hash / bcrypt.compare: the hash determines the password.
Hash(p) == <<"bcrypt", p>>
Compare(p, h) == h = Hash(p)

\* SQL LOWER() and the text ordering.
Lower(c) == IF c \in 65 .. 90 THEN c + 32 ELSE c
LowerStr(s) == [i \in 1 .. Len(s) |-> Lower(s[i])]
\* s sorts strictly before t: at the first position where they differ s ends or is smaller
StrLess(s, t) ==
    \E i \in 1 .. Len(t) :
        /\ i <= Len(s) + 1
        /\ \A j \in 1 .. (i - 1) : s[j] = t[j]
        /\ (i = Len(s) + 1 \/ s[i] < t[i])

\* ------------------------------------------------------------------- state
NoResponse ==
    [to |-> "", route |-> "", status |-> 0, target |-> "", view |-> "", msg |-> "", sort |-> "", rows |-> << >>]

Response(b, route, status, target, view, msg) ==
    [to |-> b, route |-> route, status |-> status, target |-> target, view |-> view,
     msg |-> msg, sort |-> "", rows |-> << >>]

Redirect(b, route, target) == Response(b, route, 302, target, "", "")
Render(b, route, view, msg) == Response(b, route, 200, "", view, msg)
Send(b, route, status, msg) == Response(b, route, status, "", "", msg)
\* The handler returned and sent nothing: the request stays open.
NothingSent(b, route) == Response(b, route, 0, "", "", "")

\* A run of fetchCoverUrl, alone or inside GET /api/cover/:isbn.
NoReply == [kind |-> "", entry |-> Null]
Returned(v) == [raised |-> FALSE, value |-> v]
Raised == [raised |-> TRUE, value |-> Null]
NoLookup ==
    [pc |-> "idle", route |-> FALSE, isbn |-> StrEmpty, calls |-> 0, reply |-> NoReply,
     result |-> Returned(Null), status |-> 0, json |-> Null]

Init ==
    /\ users = {}
    /\ books = {}
    /\ bookSeq = 0
    /\ session = [b \in Browser |-> Null]
    /\ inflight = [b \in Browser |-> Null]
    /\ resp = NoResponse
    /\ cover = [b \in Browser |-> NoLookup]

\* ----------------------------------------------------------- the database
\* users(id, email unique, password)
UsersByEmail(e) == {u \in users : u.email = e}
UsersEmailUnique(e) == UsersByEmail(e) = {}
NextUserId == Cardinality(users) + 1

\* books: title TEXT NOT NULL
TitleNotNull(t) == t # Null

OwnedBy(uid) == {k \in books : k.user_id = uid}
BooksById(id) == {k \in books : k.id = id}
\* WHERE id = $1 AND user_id = $2
BooksByIdOnly(id, uid) == {k \in books : k.id = id}
BooksByIdAndUser(id, uid) == {k \in books : k.id = id /\ k.user_id = uid}

\* The parameter list of INSERT / UPDATE (part_001 181, 196; index.js 114, 129)
Columns(f) ==
    [title |-> f.title, author |-> OrNull(f.author), isbn |-> OrNull(f.isbn),
     rating |-> ToInt(OrNull(f.rating)), notes |-> OrNull(f.notes),
     finished_on |-> ToInt(OrNull(f.finished_on))]

\* A row of books. cover_url and created_at are never written by a handler
\* (they keep their defaults) and are left out.
Row(id, uid, c) ==
    [id |-> id, user_id |-> uid, title |-> Val(c.title), author |-> c.author, isbn |-> c.isbn,
     rating |-> c.rating, notes |-> c.notes, finished_on |-> c.finished_on]

\* ---------------------------------------------------------------- ordering
\* a sorts strictly before b under `DESC NULLS LAST`
DescNullsLast(a, b) == a # Null /\ (b = Null \/ Val(a) > Val(b))

\* const sort = req.query.sort || "recent"
SortOf(q) == IF q = Null \/ q = Some("") THEN "recent" ELSE Val(q)

\* the ORDER BY clause chosen for a sort key
OrderBy(sort) ==
    IF sort = "rating" THEN "rating" ELSE IF sort = "title" THEN "title" ELSE "recent"

\* row x must come before row y under the clause
Before(clause, x, y) ==
    CASE clause = "rating" ->
            \/ DescNullsLast(x.rating, y.rating)
            \/ (x.rating = y.rating /\ DescNullsLast(x.finished_on, y.finished_on))
      [] clause = "title" -> StrLess(LowerStr(x.title), LowerStr(y.title))
      [] OTHER ->
            \/ DescNullsLast(x.finished_on, y.finished_on)
            \/ (x.finished_on = y.finished_on /\ x.id > y.id)

\* The orders in which the database may return the rows: any order that
\* respects the clause (rows the clause does not separate come in any order).
Ordered(rows, clause) ==
    {p \in [1 .. Cardinality(rows) -> rows] :
        /\ \A i, j \in DOMAIN p : i # j => p[i] # p[j]
        /\ \A i, j \in DOMAIN p : i < j => ~Before(clause, p[j], p[i])}

\* ------------------------------------------------- part_001: the session app
\* req.isAuthenticated()
IsAuthenticated(b) == session[b] # Null

\* requireAuth lets the request through
requireAuthOff(b) == TRUE
requireAuth(b) == IsAuthenticated(b)

\* passport.session() resolving the stored id fails on a failed query:
\* the request ends in Express's error handler.
RestoreFails(b, db) == IsAuthenticated(b) /\ db = "restore_failed"
DbOk(b, db) == db = "ok" \/ (db = "restore_failed" /\ ~IsAuthenticated(b))

\* resp is the outcome of the handler that ran last; Return clears it before
\* the server takes up the next request.
Answer(r) ==
    /\ resp' = r
    /\ UNCHANGED cover

Ready == resp = NoResponse
Idle(b) == Ready /\ inflight[b] = Null

Return ==
    /\ ~Ready
    /\ resp' = NoResponse
    /\ UNCHANGED <<dbVars, session, inflight, cover>>

\* A request stopped before its handler: by the failed session restore or by requireAuth.
Stopped(b, route, db) ==
    IF RestoreFails(b, db)
    THEN Send(b, route, 500, "Internal Server Error")
    ELSE Redirect(b, route, "/login")

\* GET /
ListBooks(b, q, db) ==
    /\ Idle(b)
    /\ UNCHANGED <<dbVars, session, inflight>>
    /\ IF RestoreFails(b, db) \/ ~requireAuth(b)
       THEN Answer(Stopped(b, "GET /", db))
       ELSE IF ~DbOk(b, db)
       THEN Answer(Send(b, "GET /", 500, "Error loading books"))
       ELSE \E p \in Ordered(OwnedBy(session[b]), OrderBy(SortOf(q))) :
                Answer([Render(b, "GET /", "index.ejs", "") EXCEPT !.rows = p, !.sort = SortOf(q)])

\* GET /books/new
NewBookForm(b, db) ==
    /\ Idle(b)
    /\ UNCHANGED <<dbVars, session, inflight>>
    /\ IF RestoreFails(b, db) \/ ~requireAuth(b)
       THEN Answer(Stopped(b, "GET /books/new", db))
       ELSE Answer(Render(b, "GET /books/new", "book-form.ejs", "Add a book"))

\* GET /books/:id/edit
EditForm(b, id, db) ==
    /\ Idle(b)
    /\ UNCHANGED <<dbVars, session, inflight>>
    /\ IF RestoreFails(b, db) \/ ~requireAuth(b)
       THEN Answer(Stopped(b, "GET /books/:id/edit", db))
       ELSE IF ~DbOk(b, db)
       THEN Answer(Send(b, "GET /books/:id/edit", 500, "Error loading book"))
       ELSE IF BooksByIdAndUser(id, session[b]) = {}
       THEN Answer(Send(b, "GET /books/:id/edit", 404, "Book not found"))
       ELSE \E k \in BooksByIdAndUser(id, session[b]) :
                Answer([Render(b, "GET /books/:id/edit", "book-form.ejs", "Edit book")
                            EXCEPT !.rows = <<k>>])

\* POST /books
CreateBook(b, f, db) ==
    /\ Idle(b)
    /\ bookSeq < MaxBooks
    /\ UNCHANGED <<users, session, inflight>>
    /\ IF RestoreFails(b, db) \/ ~requireAuth(b)
       THEN /\ Answer(Stopped(b, "POST /books", db))
            /\ UNCHANGED <<books, bookSeq>>
       ELSE IF ~DbOk(b, db) \/ ~TitleNotNull(Columns(f).title)
       THEN /\ Answer(Send(b, "POST /books", 500, "Error creating book"))
            /\ UNCHANGED <<books, bookSeq>>
       ELSE /\ bookSeq' = bookSeq + 1
            /\ books' = books \cup {Row(bookSeq + 1, session[b], Columns(f))}
            /\ Answer(Redirect(b, "POST /books", "/"))

\* POST /books/:id/edit
UpdateBook(b, id, f, db) ==
    /\ Idle(b)
    /\ UNCHANGED <<users, bookSeq, session, inflight>>
    /\ IF RestoreFails(b, db) \/ ~requireAuth(b)
       THEN /\ Answer(Stopped(b, "POST /books/:id/edit", db))
            /\ UNCHANGED books
       ELSE IF \/ ~DbOk(b, db)
               \/ (BooksByIdAndUser(id, session[b]) # {} /\ ~TitleNotNull(Columns(f).title))
       THEN /\ Answer(Send(b, "POST /books/:id/edit", 500, "Error updating book"))
            /\ UNCHANGED books
       ELSE /\ books' = (books \ BooksByIdAndUser(id, session[b]))
                           \cup {Row(k.id, k.user_id, Columns(f)) : k \in BooksByIdAndUser(id, session[b])}
            /\ Answer(Redirect(b, "POST /books/:id/edit", "/"))

\* POST /books/:id/delete
DeleteBook(b, id, db) ==
    /\ Idle(b)
    /\ UNCHANGED <<users, bookSeq, session, inflight>>
    /\ IF RestoreFails(b, db) \/ ~requireAuth(b)
       THEN /\ Answer(Stopped(b, "POST /books/:id/delete", db))
            /\ UNCHANGED books
       ELSE IF ~DbOk(b, db)
       THEN /\ Answer(Send(b, "POST /books/:id/delete", 500, "Error deleting book"))
            /\ UNCHANGED books
       ELSE /\ books' = books \ BooksByIdAndUser(id, session[b])
            /\ Answer(Redirect(b, "POST /books/:id/delete", "/"))

\* GET /login
GetLogin(b, error, db) ==
    /\ Idle(b)
    /\ UNCHANGED <<dbVars, session, inflight>>
    /\ IF RestoreFails(b, db)
       THEN Answer(Send(b, "GET /login", 500, "Internal Server Error"))
       ELSE IF IsAuthenticated(b)
       THEN Answer(Redirect(b, "GET /login", "/"))
       ELSE Answer(Render(b, "GET /login", "login.ejs",
                          IF error THEN "Invalid email or password" ELSE ""))

\* GET /register
GetRegister(b, db) ==
    /\ Idle(b)
    /\ UNCHANGED <<dbVars, session, inflight>>
    /\ IF RestoreFails(b, db)
       THEN Answer(Send(b, "GET /register", 500, "Internal Server Error"))
       ELSE IF IsAuthenticated(b)
       THEN Answer(Redirect(b, "GET /register", "/"))
       ELSE Answer(Render(b, "GET /register", "register.ejs", ""))

\* POST /register up to its first query: SELECT id FROM users WHERE email = $1
RegisterCheck(b, e, p, db) ==
    /\ Idle(b)
    /\ UNCHANGED <<dbVars, session>>
    /\ IF RestoreFails(b, db)
       THEN Answer(Send(b, "POST /register", 500, "Internal Server Error")) /\ UNCHANGED inflight
       ELSE IF ~DbOk(b, db)
       THEN Answer(Send(b, "POST /register", 500, "Error registering user")) /\ UNCHANGED inflight
       ELSE IF UsersByEmail(e) # {}
       THEN Answer(Render(b, "POST /register", "register.ejs", "Email already registered"))
            /\ UNCHANGED inflight
       ELSE /\ inflight' = [inflight EXCEPT ![b] = Some([email |-> e, password |-> p])]
            /\ UNCHANGED <<resp, cover>>

\* req.login(user): the session now holds the user's id
LoginSession(b, id) == [session EXCEPT ![b] = Some(id)]

\* POST /register from bcrypt.hash on: INSERT INTO users ... RETURNING, then req.login
RegisterInsert(b, db) ==
    /\ Ready
    /\ inflight[b] # Null
    /\ db # "restore_failed"
    /\ inflight' = [inflight EXCEPT ![b] = Null]
    /\ UNCHANGED <<books, bookSeq>>
    /\ LET r == Val(inflight[b]) IN
       IF db # "ok" \/ ~UsersEmailUnique(r.email)
       THEN /\ Answer(Send(b, "POST /register", 500, "Error registering user"))
            /\ UNCHANGED <<users, session>>
       ELSE /\ users' = users \cup {[id |-> NextUserId, email |-> r.email, password |-> Hash(r.password)]}
            /\ session' = LoginSession(b, NextUserId)
            /\ Answer(Redirect(b, "POST /register", "/"))

\* The LocalStrategy verify callback: the user to sign in, or none
VerifyAnyPassword(e, p) == {u \in UsersByEmail(e) : TRUE}
Verify(e, p) == {u \in UsersByEmail(e) : Compare(p, u.password)}

\* POST /login
Login(b, e, p, db) ==
    /\ Idle(b)
    /\ UNCHANGED <<dbVars, inflight>>
    /\ IF RestoreFails(b, db) \/ ~DbOk(b, db)
       THEN Answer(Send(b, "POST /login", 500, "Internal Server Error")) /\ UNCHANGED session
       ELSE IF Verify(e, p) = {}
       THEN Answer(Redirect(b, "POST /login", "/login?error=1")) /\ UNCHANGED session
       ELSE \E u \in Verify(e, p) :
                /\ session' = LoginSession(b, u.id)
                /\ Answer(Redirect(b, "POST /login", "/"))

\* req.logout(): the session holds no user
LogoutSessionKept(b) == session
LogoutSession(b) == [session EXCEPT ![b] = Null]

\* POST /logout
Logout(b, db) ==
    /\ Idle(b)
    /\ UNCHANGED <<dbVars, inflight>>
    /\ IF RestoreFails(b, db)
       THEN Answer(Send(b, "POST /logout", 500, "Internal Server Error")) /\ UNCHANGED session
       ELSE /\ session' = LogoutSession(b)
            /\ Answer(Redirect(b, "POST /logout", "/login"))

\* ------------------------------------------------ index.js: no sessions
IndexDb == {"ok", "query_failed"}

\* GET /: the catch block logs and sends nothing
IndexListBooks(b, q, db) ==
    /\ Ready
    /\ UNCHANGED <<dbVars, session, inflight>>
    /\ IF db # "ok"
       THEN Answer(NothingSent(b, "index.js GET /"))
       ELSE \E p \in Ordered(books, OrderBy(SortOf(q))) :
                Answer([Render(b, "index.js GET /", "index.ejs", "") EXCEPT !.rows = p, !.sort = SortOf(q)])

\* GET /books/new
IndexNewBookForm(b) ==
    /\ Ready
    /\ UNCHANGED <<dbVars, session, inflight>>
    /\ Answer(Render(b, "index.js GET /books/new", "book-form.ejs", "Add a book"))

\* GET /books/:id/edit
IndexEditForm(b, id, db) ==
    /\ Ready
    /\ UNCHANGED <<dbVars, session, inflight>>
    /\ IF db # "ok"
       THEN Answer(Send(b, "index.js GET /books/:id/edit", 500, "Error loading book"))
       ELSE IF BooksById(id) = {}
       THEN Answer(Send(b, "index.js GET /books/:id/edit", 404, "Book not found"))
       ELSE \E k \in BooksById(id) :
                Answer([Render(b, "index.js GET /books/:id/edit", "book-form.ejs", "Edit book")
                            EXCEPT !.rows = <<k>>])

\* POST /books: the INSERT names no user_id
IndexCreateBook(b, f, db) ==
    /\ Ready
    /\ bookSeq < MaxBooks
    /\ UNCHANGED <<users, session, inflight>>
    /\ IF db # "ok" \/ ~TitleNotNull(Columns(f).title)
       THEN /\ Answer(Send(b, "index.js POST /books", 500, "Error creating book"))
            /\ UNCHANGED <<books, bookSeq>>
       ELSE /\ bookSeq' = bookSeq + 1
            /\ books' = books \cup {Row(bookSeq + 1, Null, Columns(f))}
            /\ Answer(Redirect(b, "index.js POST /books", "/"))

\* POST /books/:id/edit
IndexUpdateBook(b, id, f, db) ==
    /\ Ready
    /\ UNCHANGED <<users, bookSeq, session, inflight>>
    /\ IF db # "ok" \/ (BooksById(id) # {} /\ ~TitleNotNull(Columns(f).title))
       THEN /\ Answer(Send(b, "index.js POST /books/:id/edit", 500, "Error updating book"))
            /\ UNCHANGED books
       ELSE /\ books' = (books \ BooksById(id))
                           \cup {Row(k.id, k.user_id, Columns(f)) : k \in BooksById(id)}
            /\ Answer(Redirect(b, "index.js POST /books/:id/edit", "/"))

\* POST /books/:id/delete
IndexDeleteBook(b, id, db) ==
    /\ Ready
    /\ UNCHANGED <<users, bookSeq, session, inflight>>
    /\ IF db # "ok"
       THEN /\ Answer(Send(b, "index.js POST /books/:id/delete", 500, "Error deleting book"))
            /\ UNCHANGED books
       ELSE /\ books' = books \ BooksById(id)
            /\ Answer(Redirect(b, "index.js POST /books/:id/delete", "/"))

\* --------------------------------------------------------------- cover lookup
\* PLACEHOLDER_COVER, the inline svg ("data:image/svg+xml,...")
PLACEHOLDER_COVER == <<100, 97, 116, 97>>
UrlMedium == <<109>>
UrlLarge == <<108>>

Isbns == {StrEmpty, <<57>>, <<56>>}
\* Express matches :isbn to a non-empty path segment
RouteIsbns == Isbns \ {StrEmpty}

Entry(m, l) == Some([cover |-> Some([medium |-> m, large |-> l])])

\* What axios.get may come back with: a thrown error (network, timeout), a body
\* that is null, a body that is text, or an object that holds an entry or not.
Replies ==
    { [kind |-> "network_error", entry |-> Null],
      [kind |-> "timeout", entry |-> Null],
      [kind |-> "null", entry |-> Null],
      [kind |-> "text", entry |-> Null],
      [kind |-> "object", entry |-> Null],
      [kind |-> "object", entry |-> Some([cover |-> Null])],
      [kind |-> "object", entry |-> Entry(Null, Null)],
      [kind |-> "object", entry |-> Entry(Some(UrlMedium), Null)],
      [kind |-> "object", entry |-> Entry(Null, Some(UrlLarge))],
      [kind |-> "object", entry |-> Entry(Some(UrlMedium), Some(UrlLarge))] }

\* a JavaScript value used as a condition
Truthy(x) == x # Null /\ x # Some(StrEmpty)

\* entry?.cover?.medium and entry?.cover?.large
Chain(entry, field) ==
    IF entry = Null THEN Null
    ELSE IF Val(entry).cover = Null THEN Null
    ELSE IF field = "medium" THEN Val(Val(entry).cover).medium
    ELSE Val(Val(entry).cover).large

\* axios.get rejects, or reading data[...] of null throws
Throws(reply) == reply.kind \in {"network_error", "timeout", "null"}

\* the body of the try block
Pick(reply) ==
    IF Truthy(Chain(reply.entry, "medium")) THEN Chain(reply.entry, "medium")
    ELSE IF Truthy(Chain(reply.entry, "large")) THEN Chain(reply.entry, "large")
    ELSE Null

\* the try / catch of fetchCoverUrl around the call
NoCatch(reply) == IF Throws(reply) THEN Raised ELSE Returned(Pick(reply))
TryCatch(reply) == IF Throws(reply) THEN Returned(Null) ELSE Returned(Pick(reply))

\* fetchCoverUrl(isbn) is called, by the route (route = TRUE) or on its own
FetchCoverUrl(b, isbn, route) ==
    /\ cover[b].pc = "idle"
    /\ route => isbn \in RouteIsbns
    /\ cover' = [cover EXCEPT ![b] =
                    IF ~Truthy(Some(isbn))
                    THEN [NoLookup EXCEPT !.pc = "returned", !.route = route, !.isbn = isbn]
                    ELSE [NoLookup EXCEPT !.pc = "awaiting", !.route = route, !.isbn = isbn,
                                          !.calls = 1]]
    /\ UNCHANGED <<dbVars, session, inflight, resp>>

\* the outbound call settles
AxiosSettles(b, reply) ==
    /\ cover[b].pc = "awaiting"
    /\ cover' = [cover EXCEPT ![b].pc = "returned", ![b].reply = reply,
                              ![b].result = TryCatch(reply)]
    /\ UNCHANGED <<dbVars, session, inflight, resp>>

\* GET /api/cover/:isbn after the await
ApiCoverResponds(b) ==
    /\ cover[b].pc = "returned"
    /\ cover[b].route
    /\ cover' = [cover EXCEPT ![b].pc = "done",
                    ![b].status = IF cover[b].result.raised THEN 500 ELSE 200,
                    ![b].json = IF cover[b].result.raised THEN Null
                                ELSE IF Truthy(cover[b].result.value)
                                     THEN cover[b].result.value ELSE Some(PLACEHOLDER_COVER)]
    /\ UNCHANGED <<dbVars, session, inflight, resp>>

\* the run is over
LookupEnds(b) ==
    /\ cover[b].pc = "done" \/ (cover[b].pc = "returned" /\ ~cover[b].route)
    /\ cover' = [cover EXCEPT ![b] = NoLookup]
    /\ UNCHANGED <<dbVars, session, inflight, resp>>

NextCover ==
    \/ \E b \in Browser, isbn \in Isbns, route \in BOOLEAN : FetchCoverUrl(b, isbn, route)
    \/ \E b \in Browser, reply \in Replies : AxiosSettles(b, reply)
    \/ \E b \in Browser : ApiCoverResponds(b)
    \/ \E b \in Browser : LookupEnds(b)

\* ------------------------------------------------------------ specifications
Next ==
    \/ \E b \in Browser, q \in SortParams, db \in DbOutcomes : ListBooks(b, q, db)
    \/ \E b \in Browser, db \in DbOutcomes : NewBookForm(b, db)
    \/ \E b \in Browser, id \in BookIds, db \in DbOutcomes : EditForm(b, id, db)
    \/ \E b \in Browser, f \in Forms, db \in DbOutcomes : CreateBook(b, f, db)
    \/ \E b \in Browser, id \in BookIds, f \in Forms, db \in DbOutcomes : UpdateBook(b, id, f, db)
    \/ \E b \in Browser, id \in BookIds, db \in DbOutcomes : DeleteBook(b, id, db)
    \/ \E b \in Browser, error \in BOOLEAN, db \in DbOutcomes : GetLogin(b, error, db)
    \/ \E b \in Browser, db \in DbOutcomes : GetRegister(b, db)
    \/ \E b \in Browser, e \in Emails, p \in RegisterPasswords, db \in DbOutcomes : RegisterCheck(b, e, p, db)
    \/ \E b \in Browser, db \in DbOutcomes : RegisterInsert(b, db)
    \/ \E b \in Browser, e \in Emails, p \in LoginPasswords, db \in DbOutcomes : Login(b, e, p, db)
    \/ \E b \in Browser, db \in DbOutcomes : Logout(b, db)
    \/ Return

NextIndex ==
    \/ \E b \in Browser, q \in SortParams, db \in IndexDb : IndexListBooks(b, q, db)
    \/ \E b \in Browser : IndexNewBookForm(b)
    \/ \E b \in Browser, id \in BookIds, db \in IndexDb : IndexEditForm(b, id, db)
    \/ \E b \in Browser, f \in Forms, db \in IndexDb : IndexCreateBook(b, f, db)
    \/ \E b \in Browser, id \in BookIds, f \in Forms, db \in IndexDb : IndexUpdateBook(b, id, f, db)
    \/ \E b \in Browser, id \in BookIds, db \in IndexDb : IndexDeleteBook(b, id, db)

\* The application with sessions alone.
Spec == Init /\ [][Next]_vars

\* The cover lookup, the same in both applications.
SpecCover == Init /\ [][NextCover]_vars

\* Both applications of the repository on the one database.
SpecRepo == Init /\ [][Next \/ NextIndex]_vars


\* -------------------------------------------------------------------- claims
\* The handler step of browser b: the server was between requests and the
\* outcome of the step is addressed to b.
StepOf(b) == resp = NoResponse /\ resp'.to = b

\* The step answers browser b on the route.
Answers(b, route) == StepOf(b) /\ resp'.route = route

ProtectedRoutes ==
    {"GET /", "GET /books/new", "GET /books/:id/edit", "POST /books", "POST /books/:id/edit",
     "POST /books/:id/delete"}

\* A protected operation requested by browser b.
ProtectedStep(b) == \E r \in ProtectedRoutes : Answers(b, r)

RedirectedToLogin(b) == resp'.to = b /\ resp'.status = 302 /\ resp'.target = "/login"

\* C1: in the session of a user, a request never returns, changes or deletes
\* a book owned by another user.
C1_CrossUserIsolation ==
    [][\A b \in Browser :
          StepOf(b) /\ session[b] # Null =>
              \A k \in books :
                  k.user_id # Null /\ k.user_id # session[b] =>
                      /\ k \in books'
                      /\ \A i \in DOMAIN resp'.rows : resp'.rows[i].id # k.id]_vars

DuplicateEmail(b) ==
    resp' = Render(b, "POST /register", "register.ejs", "Email already registered")

\* C3: a registration of an email that a user row already holds fails with
\* DuplicateEmail, inserts no row and establishes no session, also when it
\* ran its existence check before the other registration inserted.
C3_DuplicateRegistration ==
    [][\A b \in Browser :
          /\ \A e \in Emails, p \in RegisterPasswords :
                RegisterCheck(b, e, p, "ok") /\ (\E u \in users : u.email = e) =>
                    DuplicateEmail(b) /\ users' = users /\ session' = session
          /\ RegisterInsert(b, "ok") /\ (\E u \in users : u.email = Val(inflight[b]).email) =>
                    DuplicateEmail(b) /\ users' = users /\ session' = session]_vars

\* A login of browser b that must fail: the email is not registered, or the
\* password is not the one whose hash is stored.
FailingLogin(b, e, p) ==
    /\ Login(b, e, p, "ok")
    /\ \A u \in users : u.email = e => u.password # <<"bcrypt", p>>

InvalidCredentials(b) == resp' = Redirect(b, "POST /login", "/login?error=1")

\* Only a login with a registered email and its password signs a browser in.
LoginOnlyWithCredentials ==
    \A b \in Browser :
        session'[b] # session[b] /\ Answers(b, "POST /login") =>
            \A e \in Emails, p \in LoginPasswords, db \in DbOutcomes :
                Login(b, e, p, db) =>
                    \E u \in users :
                        u.email = e /\ u.password = <<"bcrypt", p>> /\ session'[b] = {u.id}

\* C4 as stated: a failing login, unknown email or wrong password alike, is
\* answered /login?error=1 and leaves the session unauthenticated.
C4_FailedLoginUnauthenticated ==
    [][/\ \A b \in Browser :
            Answers(b, "POST /login") =>
                \A e \in Emails, p \in LoginPasswords :
                    FailingLogin(b, e, p) => InvalidCredentials(b) /\ session'[b] = Null
       /\ LoginOnlyWithCredentials]_vars

\* C4 amended: a failing login, unknown email or wrong password alike, is
\* answered /login?error=1 and leaves the session as it was; the login page
\* then shows an unauthenticated browser the one message; only a registered
\* email with its password signs a browser in.
C4_FailedLoginIndistinguishable ==
    [][/\ \A b \in Browser :
            Answers(b, "POST /login") =>
                \A e \in Emails, p \in LoginPasswords :
                    FailingLogin(b, e, p) => InvalidCredentials(b) /\ session' = session
       /\ \A b \in Browser :
            Answers(b, "GET /login") /\ GetLogin(b, TRUE, "ok") /\ session[b] = Null =>
                resp' = Render(b, "GET /login", "login.ejs", "Invalid email or password")
       /\ LoginOnlyWithCredentials]_vars

\* both emails are registered, so the login that failed had a wrong password,
\* and it came from a browser that is signed in
C4_Witness ==
    /\ Cardinality(users) = 2
    /\ resp = Redirect("b1", "POST /login", "/login?error=1")
    /\ session["b1"] # Null

\* A login or a registration of browser b succeeds.
SignsIn(b) ==
    /\ Answers(b, "POST /login") \/ Answers(b, "POST /register")
    /\ resp'.status = 302
    /\ resp'.target = "/"

\* The request never reached its handler: restoring the user of an existing
\* session failed on the database.
RestoreFailed(b) ==
    /\ session[b] # Null
    /\ resp'.status = 500
    /\ resp'.msg = "Internal Server Error"
    /\ session' = session

NoTarget(id, uid) == ~(\E k \in books : k.id = id /\ k.user_id = uid)

Empty(x) == x = {} \/ x = {<< >>}

\* C7: a create request without a title, or with an empty one, adds no row; a
\* create request with a title adds exactly one row, owned by the requesting
\* user, whose optional fields submitted empty are null.
C7_CreateRequiresTitle ==
    [][\A b \in Browser, f \in Forms :
          StepOf(b) /\ session[b] # Null /\ CreateBook(b, f, "ok") =>
              IF Empty(f.title)
              THEN books' = books
              ELSE \E k \in books' :
                      /\ k \notin books
                      /\ books' = books \cup {k}
                      /\ k.user_id = session[b]
                      /\ Empty(f.author) => k.author = Null
                      /\ Empty(f.isbn) => k.isbn = Null
                      /\ Empty(f.rating) => k.rating = Null
                      /\ Empty(f.notes) => k.notes = Null
                      /\ Empty(f.finished_on) => k.finished_on = Null]_vars

\* The claim's orderings, on two rows x before y.
Fold(c) == IF c >= 65 /\ c <= 90 THEN c + 32 ELSE c
RECURSIVE TitleLeq(_, _)
TitleLeq(s, t) ==
    IF s = << >> THEN TRUE
    ELSE IF t = << >> THEN FALSE
    ELSE IF Fold(Head(s)) # Fold(Head(t)) THEN Fold(Head(s)) < Fold(Head(t))
    ELSE TitleLeq(Tail(s), Tail(t))

\* descending, unset last
DescUnsetLast(a, b) == (a = {} => b = {}) /\ (a # {} /\ b # {} => \A v \in a, w \in b : v >= w)

InOrder(sort, x, y) ==
    IF sort = "rating"
    THEN /\ DescUnsetLast(x.rating, y.rating)
         /\ x.rating = y.rating => DescUnsetLast(x.finished_on, y.finished_on)
    ELSE IF sort = "title"
    THEN TitleLeq(x.title, y.title)
    ELSE /\ DescUnsetLast(x.finished_on, y.finished_on)
         /\ x.finished_on = y.finished_on => x.id >= y.id

IsList == resp.view = "index.ejs"

\* C8: the list shown in a user's session holds exactly the books that user
\* owns (among the books that have an owner), once each, ordered by the key.
C8_ListBooks ==
    IsList /\ session[resp.to] # Null =>
        /\ {k \in {resp.rows[i] : i \in DOMAIN resp.rows} : k.user_id # Null}
              = {k \in books : k.user_id = session[resp.to]}
        /\ \A i, j \in DOMAIN resp.rows : i < j =>
              /\ resp.rows[i] # resp.rows[j]
              /\ InOrder(resp.sort, resp.rows[i], resp.rows[j])

\* C8 for the application with sessions alone: exactly the user's books, in order.
C8_SessionAppListBooks ==
    IsList =>
        /\ session[resp.to] # Null
        /\ {resp.rows[i] : i \in DOMAIN resp.rows} = {k \in books : k.user_id = session[resp.to]}
        /\ \A i, j \in DOMAIN resp.rows : i < j =>
              /\ resp.rows[i] # resp.rows[j]
              /\ InOrder(resp.sort, resp.rows[i], resp.rows[j])

C8_SessionAppWitness ==
    /\ IsList
    /\ resp.sort = "title"
    /\ Len(resp.rows) = 2
    /\ resp.rows[1].title = <<97>>
    /\ resp.rows[2].title = <<66>>

\* the medium URL if the reply holds one, else the large one, else nothing
Preferred(reply) ==
    IF reply.kind # "object" \/ reply.entry = {} THEN {}
    ELSE LET e == CHOOSE x \in reply.entry : TRUE IN
         IF e.cover = {} THEN {}
         ELSE LET c == CHOOSE x \in e.cover : TRUE IN
              IF c.medium # {} THEN c.medium ELSE c.large

\* C9: fetchCoverUrl makes no outbound call for an empty isbn and one
\* otherwise, never raises, and returns the medium URL, else the large URL,
\* else nothing, whatever the call came back with; GET /api/cover/:isbn
\* answers 200 with that URL, or with the placeholder when there is none.
C9_CoverLookupNeverFails ==
    \A b \in Browser :
        LET c == cover[b] IN
        /\ c.calls = (IF c.pc = "idle" \/ c.isbn = << >> THEN 0 ELSE 1)
        /\ ~c.result.raised
        /\ c.pc \in {"returned", "done"} => c.result.value = Preferred(c.reply)
        /\ c.pc = "done" =>
              /\ c.status = 200
              /\ c.json = (IF Preferred(c.reply) = {} THEN {PLACEHOLDER_COVER} ELSE Preferred(c.reply))

C9_Witness ==
    /\ cover["b1"].pc = "done"
    /\ cover["b1"].reply.kind = "timeout"
    /\ cover["b1"].json = {PLACEHOLDER_COVER}
    /\ cover["b2"].pc = "returned"
    /\ cover["b2"].isbn = << >>
    /\ cover["b2"].calls = 0

\* A request of browser b whose handler's query fails.
QueryFails(b) ==
    \/ /\ session[b] # Null
       /\ \/ \E q \in SortParams : ListBooks(b, q, "query_failed")
          \/ \E id \in BookIds : EditForm(b, id, "query_failed")
          \/ \E f \in Forms : CreateBook(b, f, "query_failed")
          \/ \E id \in BookIds, f \in Forms : UpdateBook(b, id, f, "query_failed")
          \/ \E id \in BookIds : DeleteBook(b, id, "query_failed")
    \/ \E e \in Emails, p \in RegisterPasswords : RegisterCheck(b, e, p, "query_failed")
    \/ RegisterInsert(b, "query_failed")
    \/ \E q \in SortParams : IndexListBooks(b, q, "query_failed")
    \/ \E id \in BookIds : IndexEditForm(b, id, "query_failed")
    \/ \E f \in Forms : IndexCreateBook(b, f, "query_failed")
    \/ \E id \in BookIds, f \in Forms : IndexUpdateBook(b, id, f, "query_failed")
    \/ \E id \in BookIds : IndexDeleteBook(b, id, "query_failed")

\* C10: a request whose query fails is answered with a server error, and no
\* handler returns without a response.
C10_PersistenceFailuresAnswered ==
    [][/\ \A b \in Browser : QueryFails(b) => resp'.to = b /\ resp'.status = 500
       /\ resp' # NoResponse => resp'.status # 0]_vars

====
